---- MODULE Spec2Model ----
(***************************************************************************)
(* Model of scripts/export_telethon_session.py: one run of the exporter,   *)
(* from the parsed command line to the written JSON bundle, with the       *)
(* output path as a reader of the file system sees it.                     *)
(*                                                                         *)
(* Python and JSON values are records [t, s, n]: t is the type tag, s the  *)
(* characters of a string (a sequence of one-character strings), n the     *)
(* number of an int or the length of a list.                               *)
(***************************************************************************)
EXTENDS Integers, Sequences, FiniteSets, TLC

\* ---------------------------------------------------------------- bounds

\* Longest string enumerated in full for a name field, --name and --pool.
MaxStrLen == 2

\* ---------------------------------------------------------------- values

None == [t |-> "none", s |-> <<>>, n |-> 0]
PyStr(chars) == [t |-> "str", s |-> chars, n |-> 0]
PyInt(k) == [t |-> "int", s |-> <<>>, n |-> k]
PyList(len) == [t |-> "list", s |-> <<>>, n |-> len]

\* isinstance(value, str)
IsStr(v) == v.t = "str"

\* str.strip() removes leading and trailing whitespace.
IsSpace(c) == c = " "

RECURSIVE LStrip(_)
LStrip(s) == IF s # <<>> /\ IsSpace(Head(s)) THEN LStrip(Tail(s)) ELSE s

RECURSIVE RStrip(_)
RStrip(s) ==
    IF s # <<>> /\ IsSpace(s[Len(s)]) THEN RStrip(SubSeq(s, 1, Len(s) - 1)) ELSE s

Strip(s) == RStrip(LStrip(s))

\* Python truth value, the operand of `not x` and `x or y`.
TruthyNotNone(v) == v # None

Truthy(v) ==
    CASE v.t = "none" -> FALSE
      [] v.t = "int"  -> v.n # 0
      [] v.t = "str"  -> v.s # <<>>
      [] v.t = "list" -> v.n # 0

\* dict.get(key): the value, None for a key that is not there.
Get(map, key) == IF key \in DOMAIN map THEN map[key] ELSE None

\* ------------------------------------------------------- pure functions

NameKeys == <<"name", "session_file", "phone", "username">>

\* detect_name: the first of the name keys whose value is a string that is
\* non-empty once stripped, stripped; else the stem of the session path.
RECURSIVE DetectFrom(_, _, _, _)
DetectFrom(keys, i, meta, stem) ==
    IF i > Len(keys) THEN PyStr(stem)
    ELSE LET value == Get(meta, keys[i])
         IN  IF IsStr(value) /\ Strip(value.s) # <<>>
             THEN PyStr(Strip(value.s))
             ELSE DetectFrom(keys, i + 1, meta, stem)

detect_name_swapped(meta, stem) ==
    DetectFrom(<<"name", "phone", "session_file", "username">>, 1, meta, stem)

detect_name(meta, stem) == DetectFrom(NameKeys, 1, meta, stem)

\* x if x is not None else metadata.get(key)
OverrideIgnored(override, meta, key) == Get(meta, key)

OverrideOr(override, meta, key) ==
    IF override # None THEN override ELSE Get(meta, key)

\* args.name.strip() or detect_name(metadata, args.session)
SessionName(name, meta, stem) ==
    IF Strip(name.s) # <<>> THEN PyStr(Strip(name.s)) ELSE detect_name(meta, stem)

DefaultPool == <<"d", "e", "f", "a", "u", "l", "t">>

\* args.pool.strip() or "default"
PoolUnstripped(pool) == IF pool.s # <<>> THEN pool ELSE PyStr(DefaultPool)

PoolOf(pool) ==
    IF Strip(pool.s) # <<>> THEN PyStr(Strip(pool.s)) ELSE PyStr(DefaultPool)

\* The dict literal of main: the eight keys of the bundle.
BundleWithoutPhone(name, pool, id, hash, meta, token) ==
    [name |-> name, pool |-> PoolOf(pool), api_id |-> id, api_hash |-> hash,
     username |-> Get(meta, "username"),
     string_session |-> token, metadata |-> meta]

BundleMetaOverridden(name, pool, id, hash, meta, token) ==
    [name |-> name, pool |-> PoolOf(pool), api_id |-> id, api_hash |-> hash,
     phone |-> Get(meta, "phone"), username |-> Get(meta, "username"),
     string_session |-> token,
     metadata |-> [k \in DOMAIN meta \cup {"app_id"} |->
                     IF k = "app_id" THEN id ELSE meta[k]]]

BundleOf(name, pool, id, hash, meta, token) ==
    [name |-> name, pool |-> PoolOf(pool), api_id |-> id, api_hash |-> hash,
     phone |-> Get(meta, "phone"), username |-> Get(meta, "username"),
     string_session |-> token, metadata |-> meta]

\* StringSession.save(client.session) of an authorized client: the version
\* character followed by the encoded data center and authorization key.
SessionToken == PyStr(<<"1", "k">>)

\* ----------------------------------------------------------------- state

VARIABLES
    argv,           \* the command line: name, pool, api_id, api_hash (None: not given)
    metaFile,       \* what --metadata holds: [kind, map]
    stem,           \* args.session.stem
    fs0,            \* the output path before the run: [dir, file]
    pc,             \* the next step of the run
    args,           \* parse_args(): the options with their defaults
    metadata,       \* main's metadata
    api_id,         \* main's api_id
    api_hash,       \* main's api_hash
    session_name,   \* main's session_name
    sessionOpen,    \* inside `with TelegramClient(...) as client`
    opens,          \* how many times the client was started
    string_session, \* main's string_session
    bundle,         \* main's bundle
    dirExists,      \* args.output.parent exists
    outFile,        \* what a reader of args.output finds: [st, data]
    exc,            \* the exception that left main, "" for none
    exitError,      \* the error the process ended with, "" for none
    stderr,         \* what was printed to sys.stderr, "" for nothing
    log             \* the steps completed, in order

inputs == <<argv, metaFile, stem, fs0>>
locals == <<args, metadata, api_id, api_hash, session_name, string_session, bundle>>
session == <<sessionOpen, opens>>
files == <<dirExists, outFile>>
ending == <<exc, exitError, stderr>>
vars == <<inputs, pc, locals, session, files, ending, log>>

NoBundle == [unset |-> TRUE]
NotLoaded == [kind |-> "unset", map |-> <<>>]
NoArgs == [name |-> None, pool |-> None, api_id |-> None, api_hash |-> None]

\* ---------------------------------------------------------------- inputs

Chars == {" ", "a"}
SeqsUpTo(n) == UNION {[1..k -> Chars] : k \in 0..n}

\* Every string up to MaxStrLen, and one padded on both sides.
Strs == SeqsUpTo(MaxStrLen) \cup {<<" ", "a", " ">>}

Absent == [t |-> "absent", s |-> <<>>, n |-> 0]
MapOf(f) == [k \in {j \in DOMAIN f : f[j] # Absent} |-> f[k]]
JsonObject(f) == [kind |-> "map", map |-> MapOf(f)]

NameVals == {Absent, PyInt(1)} \cup {PyStr(s) : s \in Strs}
IdVals == {Absent, None, PyInt(-1), PyInt(0), PyInt(1), PyStr(<<>>), PyStr(<<"a">>),
           PyList(0), PyList(1)}
HashVals == {Absent, None, PyInt(0), PyInt(1), PyStr(<<>>), PyStr(<<" ">>),
             PyStr(<<"h">>), PyList(1)}
IdArgs == {None, PyInt(0), PyInt(2), PyInt(-2)}
HashArgs == {None, PyStr(<<>>), PyStr(<<"k">>)}
StrArgs == {None} \cup {PyStr(s) : s \in Strs}

Paths == {[dir |-> FALSE, file |-> "absent"], [dir |-> TRUE, file |-> "absent"],
          [dir |-> TRUE, file |-> "previous"]}

\* Metadata with valid credentials and every combination of the name fields.
NameFiles ==
    {JsonObject([k \in {"name", "session_file", "phone", "username", "app_id", "app_hash"} |->
                    CASE k = "app_id" -> PyInt(1)
                      [] k = "app_hash" -> PyStr(<<"h">>)
                      [] OTHER -> f[k]]) :
        f \in [{"name", "session_file", "phone", "username"} -> NameVals]}

\* Metadata with every combination of the credentials, with and without a
\* phone and a key the exporter does not know; and files that are no object.
CredFiles ==
    {JsonObject([k \in {"phone", "app_id", "app_hash", "x"} |-> f[k]]) :
        f \in [phone : {Absent, PyStr(<<"a">>)}, app_id : IdVals, app_hash : HashVals,
               x : {Absent, PyInt(1)}]}
    \cup {[kind |-> "unreadable", map |-> <<>>], [kind |-> "notmap", map |-> <<>>]}

InitInputs ==
    \/ /\ metaFile \in NameFiles
       /\ argv = NoArgs
       /\ stem \in {<<"z">>}
       /\ fs0 \in {[dir |-> TRUE, file |-> "previous"]}
    \/ /\ metaFile \in CredFiles
       /\ argv \in [name : {None, PyStr(<<"a">>)}, pool : {None}, api_id : IdArgs,
                    api_hash : HashArgs]
       /\ stem \in {<<"z">>}
       /\ fs0 \in Paths
    \/ /\ metaFile \in {JsonObject([name |-> n, app_id |-> PyInt(1), app_hash |-> PyStr(<<"h">>)]) :
                            n \in {Absent, PyStr(<<"a">>)}}
       /\ argv \in [name : StrArgs, pool : StrArgs, api_id : {None}, api_hash : {None}]
       /\ stem \in {<<"z">>, <<"y">>}
       /\ fs0 \in Paths

Init ==
    /\ InitInputs
    /\ pc = "parse"
    /\ args = NoArgs
    /\ metadata = NotLoaded
    /\ api_id = None
    /\ api_hash = None
    /\ session_name = None
    /\ sessionOpen = FALSE
    /\ opens = 0
    /\ string_session = None
    /\ bundle = NoBundle
    /\ dirExists = fs0.dir
    /\ outFile = [st |-> fs0.file, data |-> NoBundle]
    /\ exc = ""
    /\ exitError = ""
    /\ stderr = ""
    /\ log = <<>>

\* ----------------------------------------------------------------- steps

Done(step, next) ==
    /\ pc' = next
    /\ log' = Append(log, step)
    /\ UNCHANGED ending

Raise(kind) ==
    /\ pc' = "raised"
    /\ exc' = kind
    /\ UNCHANGED <<exitError, stderr, log>>

\* parser.parse_args(): --name defaults to "", --pool to "default", the
\* credential overrides to None.
ParseArgs ==
    /\ pc = "parse"
    /\ args' = [name |-> IF argv.name = None THEN PyStr(<<>>) ELSE argv.name,
                pool |-> IF argv.pool = None THEN PyStr(DefaultPool) ELSE argv.pool,
                api_id |-> argv.api_id,
                api_hash |-> argv.api_hash]
    /\ Done("parse", "load")
    /\ UNCHANGED <<inputs, metadata, api_id, api_hash, session_name, string_session,
                   bundle, session, files>>

\* metadata = load_metadata(args.metadata)
LoadMetadata ==
    /\ pc = "load"
    /\ metaFile.kind # "unreadable"
    /\ metadata' = metaFile
    /\ Done("load", "validate")
    /\ UNCHANGED <<inputs, args, api_id, api_hash, session_name, string_session,
                   bundle, session, files>>

LoadMetadataFails ==
    /\ pc = "load"
    /\ metaFile.kind = "unreadable"
    /\ Raise("OSError")
    /\ UNCHANGED <<inputs, locals, session, files>>

\* Lines 82-86: the overrides, then `if not api_id or not api_hash`.
\* metadata.get raises AttributeError on a JSON value that is no object.
Validate ==
    /\ pc = "validate"
    /\ metadata.kind = "map" \/ (args.api_id # None /\ args.api_hash # None)
    /\ api_id' = OverrideOr(args.api_id, metadata.map, "app_id")
    /\ api_hash' = OverrideOr(args.api_hash, metadata.map, "app_hash")
    /\ IF ~Truthy(api_id') \/ ~Truthy(api_hash')
       THEN Raise("SystemExit")
       ELSE Done("validate", "name")
    /\ UNCHANGED <<inputs, args, metadata, session_name, string_session, bundle,
                   session, files>>

ValidateNoObject ==
    /\ pc = "validate"
    /\ metadata.kind # "map"
    /\ args.api_id = None \/ args.api_hash = None
    /\ api_id' = IF args.api_id # None THEN args.api_id ELSE api_id
    /\ Raise("AttributeError")
    /\ UNCHANGED <<inputs, args, metadata, api_hash, session_name, string_session,
                   bundle, session, files>>

\* session_name = args.name.strip() or detect_name(metadata, args.session)
ResolveName ==
    /\ pc = "name"
    /\ Strip(args.name.s) # <<>> \/ metadata.kind = "map"
    /\ session_name' = SessionName(args.name, metadata.map, stem)
    /\ Done("name", "open")
    /\ UNCHANGED <<inputs, args, metadata, api_id, api_hash, string_session, bundle,
                   session, files>>

ResolveNameNoObject ==
    /\ pc = "name"
    /\ Strip(args.name.s) = <<>>
    /\ metadata.kind # "map"
    /\ Raise("AttributeError")
    /\ UNCHANGED <<inputs, locals, session, files>>

\* with TelegramClient(SQLiteSession(...), api_id, api_hash) as client:
OpenSession ==
    /\ pc = "open"
    /\ sessionOpen' = TRUE
    /\ opens' = opens + 1
    /\ Done("open", "serialize")
    /\ UNCHANGED <<inputs, locals, files>>

OpenSessionFails ==
    /\ pc = "open"
    /\ opens' = opens + 1
    /\ Raise("SessionError")
    /\ UNCHANGED <<inputs, locals, sessionOpen, files>>

\* string_session = StringSession.save(client.session)
SaveSession ==
    /\ pc = "serialize"
    /\ string_session' = SessionToken
    /\ Done("serialize", "close")
    /\ UNCHANGED <<inputs, args, metadata, api_id, api_hash, session_name, bundle,
                   session, files>>

\* An exception in the with block leaves it through the client's __exit__.
SaveSessionFails ==
    /\ pc = "serialize"
    /\ sessionOpen' = FALSE
    /\ Raise("SessionError")
    /\ UNCHANGED <<inputs, locals, opens, files>>

\* The end of the with block disconnects the client.
CloseSessionLeak ==
    /\ pc = "close"
    /\ Done("close", "bundle")
    /\ UNCHANGED <<inputs, locals, session, files>>

CloseSession ==
    /\ pc = "close"
    /\ sessionOpen' = FALSE
    /\ Done("close", "bundle")
    /\ UNCHANGED <<inputs, locals, opens, files>>

\* bundle = {...}
BuildBundle ==
    /\ pc = "bundle"
    /\ metadata.kind = "map"
    /\ bundle' = BundleOf(session_name, args.pool, api_id, api_hash, metadata.map,
                          string_session)
    /\ Done("bundle", "mkdir")
    /\ UNCHANGED <<inputs, args, metadata, api_id, api_hash, session_name,
                   string_session, session, files>>

BuildBundleNoObject ==
    /\ pc = "bundle"
    /\ metadata.kind # "map"
    /\ Raise("AttributeError")
    /\ UNCHANGED <<inputs, locals, session, files>>

\* args.output.parent.mkdir(parents=True, exist_ok=True)
MakeParent ==
    /\ pc = "mkdir"
    /\ dirExists' = TRUE
    /\ Done("mkdir", "truncate")
    /\ UNCHANGED <<inputs, locals, session, outFile>>

MakeParentFails ==
    /\ pc = "mkdir"
    /\ Raise("OSError")
    /\ UNCHANGED <<inputs, locals, session, files>>

\* args.output.open("w"): the file is created or truncated in place.
OpenOutput ==
    /\ pc = "truncate"
    /\ outFile' = [st |-> "empty", data |-> NoBundle]
    /\ Done("truncate", "dump")
    /\ UNCHANGED <<inputs, locals, session, dirExists>>

OpenOutputFails ==
    /\ pc = "truncate"
    /\ Raise("OSError")
    /\ UNCHANGED <<inputs, locals, session, files>>

\* json.dump(bundle, fh, ...); fh.write("\n"): the text goes through fh's
\* buffer, which reaches the file in whole as late as the close and in part
\* whenever it fills.
DumpBundle ==
    /\ pc = "dump"
    /\ \E st \in {"empty", "partial"} : outFile' = [st |-> st, data |-> NoBundle]
    /\ Done("dump", "flush")
    /\ UNCHANGED <<inputs, locals, session, dirExists>>

DumpBundleFails ==
    /\ pc = "dump"
    /\ \E st \in {"empty", "partial"} : outFile' = [st |-> st, data |-> NoBundle]
    /\ Raise("OSError")
    /\ UNCHANGED <<inputs, locals, session, dirExists>>

\* The end of `with args.output.open("w") as fh` flushes and closes; main
\* returns and the process ends.
CloseOutput ==
    /\ pc = "flush"
    /\ outFile' = [st |-> "complete", data |-> bundle]
    /\ Done("flush", "exited")
    /\ UNCHANGED <<inputs, locals, session, dirExists>>

\* except Exception as exc: print(f"error: {exc}", file=sys.stderr); raise
ExceptSwallows ==
    /\ pc = "raised"
    /\ exc # "SystemExit"
    /\ pc' = "exited"
    /\ stderr' = exc
    /\ UNCHANGED <<inputs, locals, session, files, exc, exitError, log>>

ExceptClause ==
    /\ pc = "raised"
    /\ exc # "SystemExit"
    /\ pc' = "exited"
    /\ stderr' = exc
    /\ exitError' = exc
    /\ UNCHANGED <<inputs, locals, session, files, exc, log>>

\* SystemExit is no Exception: it passes the except clause, and the
\* interpreter prints its message and ends the process with status 1.
SystemExitPasses ==
    /\ pc = "raised"
    /\ exc = "SystemExit"
    /\ pc' = "exited"
    /\ stderr' = exc
    /\ exitError' = exc
    /\ UNCHANGED <<inputs, locals, session, files, exc, log>>

Next ==
    \/ ParseArgs
    \/ LoadMetadata
    \/ LoadMetadataFails
    \/ Validate
    \/ ValidateNoObject
    \/ ResolveName
    \/ ResolveNameNoObject
    \/ OpenSession
    \/ OpenSessionFails
    \/ SaveSession
    \/ SaveSessionFails
    \/ CloseSession
    \/ BuildBundle
    \/ BuildBundleNoObject
    \/ MakeParent
    \/ MakeParentFails
    \/ OpenOutput
    \/ OpenOutputFails
    \/ DumpBundle
    \/ DumpBundleFails
    \/ CloseOutput
    \/ ExceptClause
    \/ SystemExitPasses

Spec == Init /\ [][Next]_vars

\* ---------------------------------------------------------------- claims

FullOrder == <<"parse", "load", "validate", "name", "open", "serialize", "close",
               "bundle", "mkdir", "truncate", "dump", "flush">>

Completed(step) == \E i \in 1..Len(log) : log[i] = step

\* The step an exception came from: the one after the last completed.
FailedStep == IF Len(log) < Len(FullOrder) THEN FullOrder[Len(log) + 1] ELSE "none"

\* The complete bundle is in the output file.
Written == outFile.st = "complete"

OutputUntouched ==
    /\ outFile = [st |-> fs0.file, data |-> NoBundle]
    /\ dirExists = fs0.dir

\* Absent or empty: no value, "", 0 or [].
Empty(v) == v \in {None, PyStr(<<>>), PyInt(0), PyList(0)}

Blank(s) == \A i \in 1..Len(s) : s[i] = " "

\* r is s without the whitespace around it.
IsStripOf(r, s) ==
    \E i \in 1..(Len(s) + 1), j \in 0..Len(s) :
        /\ r = SubSeq(s, i, j)
        /\ \A a \in 1..(i - 1) : s[a] = " "
        /\ \A b \in (j + 1)..Len(s) : s[b] = " "
        /\ r = <<>> \/ (r[1] # " " /\ r[Len(r)] # " ")

\* The credentials after the overrides, from the command line and the file.
FileValue(key) == IF key \in DOMAIN metaFile.map THEN metaFile.map[key] ELSE None
EffectiveId == IF argv.api_id # None THEN argv.api_id ELSE FileValue("app_id")
EffectiveHash == IF argv.api_hash # None THEN argv.api_hash ELSE FileValue("app_hash")

\* C1: when api_id or api_hash is absent or empty after the overrides (a
\* supplied override replaces the metadata value, an empty or 0 override
\* included), the run ends in the validation failure and never reaches the
\* export: no session is opened, no bundle is built, the output is as it
\* was, and the credentials are never given a default.
C1_MissingCredentialFails ==
    (metaFile.kind = "map" /\ (Empty(EffectiveId) \/ Empty(EffectiveHash))) =>
        /\ pc \in {"parse", "load", "validate", "raised", "exited"}
        /\ pc \in {"raised", "exited"} =>
              /\ exc = "SystemExit"
              /\ FailedStep = "validate"
              /\ api_id = EffectiveId
              /\ api_hash = EffectiveHash
        /\ pc = "exited" => exitError = "SystemExit"
        /\ opens = 0
        /\ bundle = NoBundle
        /\ OutputUntouched

C1_Witness ==
    /\ metaFile.kind = "map"
    /\ argv.api_id = PyInt(0)
    /\ FileValue("app_id") = PyInt(1)
    /\ FileValue("app_hash") = PyStr(<<"h">>)
    /\ pc = "exited"
    /\ exitError = "SystemExit"

\* C2: when the metadata has no app_hash (no app_id) and a non-empty
\* --api-hash (non-zero --api-id) is supplied and the other credential is
\* present, validation passes, the run goes on to the export, and the
\* written bundle carries the override in api_hash (api_id).
HashRestored ==
    /\ metaFile.kind = "map"
    /\ "app_hash" \notin DOMAIN metaFile.map
    /\ argv.api_hash # None
    /\ ~Empty(argv.api_hash)
    /\ ~Empty(EffectiveId)

IdRestored ==
    /\ metaFile.kind = "map"
    /\ "app_id" \notin DOMAIN metaFile.map
    /\ argv.api_id # None
    /\ ~Empty(argv.api_id)
    /\ ~Empty(EffectiveHash)

C2_OverrideRestoresValidity ==
    /\ (HashRestored \/ IdRestored) =>
          /\ exc \notin {"SystemExit", "AttributeError"}
          /\ pc = "raised" => Completed("validate") /\ Completed("name")
    /\ (HashRestored /\ Written) => outFile.data.api_hash = argv.api_hash
    /\ (IdRestored /\ Written) => outFile.data.api_id = argv.api_id

C2_Witness ==
    /\ HashRestored
    /\ Written
    /\ outFile.data.api_hash = PyStr(<<"k">>)

\* The --name option is not given, empty or whitespace only.
NoExplicitName == argv.name = None \/ Blank(argv.name.s)

NonEmptyString(key) ==
    /\ key \in DOMAIN metaFile.map
    /\ IsStr(metaFile.map[key])
    /\ metaFile.map[key].s # <<>>

NonBlankString(key) ==
    /\ key \in DOMAIN metaFile.map
    /\ IsStr(metaFile.map[key])
    /\ ~Blank(metaFile.map[key].s)

\* The name is the field's value as it stands.
NameAsIs(n) ==
    IF \E i \in 1..Len(NameKeys) : NonEmptyString(NameKeys[i])
    THEN \E i \in 1..Len(NameKeys) :
            /\ NonEmptyString(NameKeys[i])
            /\ \A j \in 1..(i - 1) : ~NonEmptyString(NameKeys[j])
            /\ n = metaFile.map[NameKeys[i]]
    ELSE n = PyStr(stem)

\* The name is the field's value without the whitespace around it.
NameStripped(n) ==
    IF \E i \in 1..Len(NameKeys) : NonBlankString(NameKeys[i])
    THEN \E i \in 1..Len(NameKeys) :
            /\ NonBlankString(NameKeys[i])
            /\ \A j \in 1..(i - 1) : ~NonBlankString(NameKeys[j])
            /\ IsStr(n)
            /\ IsStripOf(n.s, metaFile.map[NameKeys[i]].s)
    ELSE n = PyStr(stem)

\* C3 as stated: with no explicit name, the bundle name is the value of the
\* first of name, session_file, phone, username that is a non-empty string,
\* and the stem of the session file when there is none.
C3_FirstNonEmptyString ==
    (metaFile.kind = "map" /\ NoExplicitName) =>
        /\ Completed("name") => NameAsIs(session_name)
        /\ Written => NameAsIs(outFile.data.name)

\* C3 amended: with no explicit name, the bundle name is the value, without
\* the whitespace around it, of the first of name, session_file, phone,
\* username that is a string with a character other than whitespace; a field
\* that is missing, no string, empty or whitespace only is skipped, and the
\* name is the stem of the session file when no field is left.
C3_FirstNonBlankStringStripped ==
    (metaFile.kind = "map" /\ NoExplicitName) =>
        /\ Completed("name") => NameStripped(session_name)
        /\ Written => NameStripped(outFile.data.name)

C3_Witness ==
    /\ metaFile.kind = "map"
    /\ NoExplicitName
    /\ FileValue("name") = PyStr(<<" ">>)
    /\ FileValue("session_file") = PyInt(1)
    /\ FileValue("phone") = PyStr(<<" ", "a", " ">>)
    /\ FileValue("username") = PyStr(<<"a", "a">>)
    /\ Written
    /\ outFile.data.name = PyStr(<<"a">>)

C5_PositiveIdNonEmptyHash ==
    Written =>
        /\ outFile.data.api_id.t = "int"
        /\ outFile.data.api_id.n > 0
        /\ outFile.data.api_hash.t = "str"
        /\ outFile.data.api_hash.s # <<>>

\* C6: the metadata of the written bundle is the metadata that was loaded,
\* key for key and value for value, and no step between the load and the
\* write changes it, overrides or not.
C6_MetadataUnchanged ==
    /\ Completed("load") => metadata = metaFile
    /\ bundle # NoBundle => bundle.metadata = metaFile.map
    /\ Written => outFile.data.metadata = metaFile.map

C6_Witness ==
    /\ Written
    /\ argv.api_id = PyInt(2)
    /\ argv.api_hash = PyStr(<<"k">>)
    /\ argv.name # None
    /\ outFile.data.metadata = metaFile.map
    /\ FileValue("x") = PyInt(1)
    /\ FileValue("app_id") = PyInt(1)

\* C7: the pool of every written bundle is a non-empty string: the --pool
\* value without the whitespace around it when that is non-empty, "default"
\* when --pool is not given, empty or whitespace only.
C7_PoolTag ==
    Written =>
        /\ IsStr(outFile.data.pool)
        /\ outFile.data.pool.s # <<>>
        /\ IF argv.pool # None /\ ~Blank(argv.pool.s)
           THEN IsStripOf(outFile.data.pool.s, argv.pool.s)
           ELSE outFile.data.pool.s = <<"d", "e", "f", "a", "u", "l", "t">>

C7_Witness ==
    /\ Written
    /\ argv.pool = PyStr(<<" ", "a", " ">>)
    /\ outFile.data.pool = PyStr(<<"a">>)

\* C8: a reader of the output path finds the complete previous content (or
\* no file) or the complete new bundle, never an empty or partial file.
C8_AtomicSave == outFile.st \in {"absent", "previous", "complete"}

\* C9: the steps happen in the order load, validate, resolve the name, open
\* the session, serialize the token, close the session, write the bundle; the
\* session is opened at most once, and once in a run that writes a bundle;
\* the output is touched only after the token is there and the client is
\* closed; no session is open when the run ends.
C9_StepOrder ==
    /\ Len(log) <= Len(FullOrder)
    /\ \A i \in 1..Len(log) : log[i] = FullOrder[i]
    /\ opens <= 1
    /\ sessionOpen => opens = 1
    /\ Written => opens = 1
    /\ ~OutputUntouched =>
          /\ string_session = SessionToken
          /\ Completed("close")
          /\ ~sessionOpen
    /\ pc = "exited" => ~sessionOpen

C9_Witness ==
    /\ pc = "exited"
    /\ Written
    /\ log = FullOrder
    /\ opens = 1

\* C10: when the run fails before the write step (the load, the validation,
\* the name, the session or the token), the session is not tried again, the
\* output file and its directory are as they were, no bundle is built, and
\* the process ends with the error.
C10_FailureLeavesOutput ==
    (exc # "" /\ FailedStep \in {"load", "validate", "name", "open", "serialize", "bundle"}) =>
        /\ pc \in {"raised", "exited"}
        /\ OutputUntouched
        /\ bundle = NoBundle
        /\ ~sessionOpen
        /\ opens = (IF FailedStep \in {"load", "validate", "name"} THEN 0 ELSE 1)
        /\ pc = "exited" => exitError = exc /\ stderr = exc

C10_Witness ==
    /\ pc = "exited"
    /\ exc = "SessionError"
    /\ FailedStep = "open"
    /\ fs0.file = "previous"
    /\ exitError = "SessionError"

====
